---- MODULE Spec2Model ----
(***************************************************************************)
(* Model of s3du (src/s3du/__init__.py): the Prefix accumulator, the       *)
(* S3Counter prefix stack with its fast / bisecting / per-record folding,  *)
(* the s3_disk_usage fetch/fold pipeline and the inventory reader          *)
(* s3_disk_usage_from_inventory.                                           *)
(*                                                                         *)
(* Strings are tuples of one-character strings, so that split, rsplit,     *)
(* lstrip and rstrip are computed the way Python computes them.            *)
(***************************************************************************)
EXTENDS Integers, Sequences, FiniteSets, TLC

VARIABLES
    depth,              \* S3Counter.depth
    limit,              \* S3Counter.limit
    counters,           \* S3Counter.counters, index 1 = root
    default_breakdown,  \* the one dict object of the default argument breakdown={}
    reports_at_depth,   \* S3Counter.reports_at_depth
    out,                \* what the counter emitted, in order (plus "push" marks)
    page,               \* the page the source is assembling / has delivered
    cursor,             \* index in Bucket of the last object the source listed
    arrived,            \* indices of the objects the source has listed, in order
    fed,                \* indices of the objects passed to count_list, in order
    ncalls,             \* number of count_list calls made on a non-empty page
    biggest,            \* length of the longest page passed to count_list
    pc,                 \* position of the caller / of the s3_disk_usage coroutine
    task,               \* number of the task the variable task refers to, -1 = none
    ready,              \* tasks scheduled on the event loop and not yet run
    fetched,            \* number of pages the paginator has delivered
    folded,             \* numbers of the tasks that ran count_page, in order
    manifest,           \* manifest['files']: the data files of the inventory
    fileno,             \* index of the data file being peeked / read
    lineno              \* number of lines read of the data file being read

configVars == << depth, limit >>
counterVars == << counters, default_breakdown, reports_at_depth, out >>
sourceVars == << page, cursor, arrived, fetched >>
historyVars == << fed, ncalls, biggest >>
loopVars == << task, ready, folded >>
invVars == << manifest, fileno, lineno >>

vars == << configVars, counterVars, sourceVars, historyVars, pc, loopVars, invVars >>

(***************************************************************************)
(* Bounds                                                                  *)
(***************************************************************************)
MaxDepth == 2
MaxLimit == 2
MaxObjects == 9
MaxPipePage == 2
MaxPipeObjects == 5
MaxLoose == 3
MaxInvObjects == 5
NumFiles == 2
PageSize == 2

(***************************************************************************)
(* Program constants                                                       *)
(***************************************************************************)
Inf == 1000000
SmallBatch == 8
DefaultOldest == 3
DefaultNewest == 2

Separator == "/"

Range(s) == { s[i] : i \in 1..Len(s) }

Min(a, b) == IF a < b THEN a ELSE b
Max(a, b) == IF a > b THEN a ELSE b

(***************************************************************************)
(* Python string and list primitives on tuples of characters               *)
(***************************************************************************)
Ord(c) == CASE c = "." -> 46 [] c = "/" -> 47 [] c = "a" -> 97
            [] c = "b" -> 98 [] c = "c" -> 99 [] c = "d" -> 100

RECURSIVE StrLess(_, _)
StrLess(s, t) ==
    IF t = << >> THEN FALSE
    ELSE IF s = << >> THEN TRUE
    ELSE IF Ord(Head(s)) # Ord(Head(t)) THEN Ord(Head(s)) < Ord(Head(t))
    ELSE StrLess(Tail(s), Tail(t))

\* seq[lo:hi] with Python's treatment of negative and oversized indices
PySlice(s, lo, hi) ==
    LET n == Len(s)
        l == IF lo < 0 THEN Max(lo + n, 0) ELSE Min(lo, n)
        h == IF hi < 0 THEN Max(hi + n, 0) ELSE Min(hi, n)
    IN  IF l >= h THEN << >> ELSE SubSeq(s, l + 1, h)

RECURSIVE SplitFrom(_, _, _)
SplitFrom(s, sep, cur) ==
    IF s = << >> THEN << cur >>
    ELSE IF Head(s) = sep THEN << cur >> \o SplitFrom(Tail(s), sep, << >>)
    ELSE SplitFrom(Tail(s), sep, Append(cur, Head(s)))

\* str.split(sep)
Split(s, sep) == SplitFrom(s, sep, << >>)

RECURSIVE LStrip(_, _)
LStrip(s, sep) ==
    IF s # << >> /\ Head(s) = sep THEN LStrip(Tail(s), sep) ELSE s

RECURSIVE RStrip(_, _)
RStrip(s, sep) ==
    IF s # << >> /\ s[Len(s)] = sep THEN RStrip(SubSeq(s, 1, Len(s) - 1), sep) ELSE s

\* str.rsplit(sep, maxsplit=1)[0]
RSplitHead(s, sep) ==
    LET hits == { i \in 1..Len(s) : s[i] = sep }
    IN  IF hits = {} THEN s
        ELSE LET last == CHOOSE i \in hits : \A j \in hits : j <= i
             IN  SubSeq(s, 1, last - 1)

(***************************************************************************)
(* dict of tier -> bytes                                                   *)
(***************************************************************************)
EmptyDict == [t \in {} |-> 0]
DictGet(d, t) == IF t \in DOMAIN d THEN d[t] ELSE 0
RECURSIVE SumOver(_, _)
SumOver(d, ks) ==
    IF ks = {} THEN 0
    ELSE LET k == CHOOSE x \in ks : TRUE IN d[k] + SumOver(d, ks \ {k})
DictSum(d) == SumOver(d, DOMAIN d)

(***************************************************************************)
(* The bucket: objects in ascending key order, as the backend lists them   *)
(***************************************************************************)
AllObjects == <<
    [Key |-> <<"/", "a">>,                Size |-> 1,   LastModified |-> 2, StorageClass |-> "STANDARD"],
    [Key |-> <<"a">>,                     Size |-> 2,   LastModified |-> 3, StorageClass |-> "GLACIER"],
    [Key |-> <<"a", "/">>,                Size |-> 0,   LastModified |-> 2, StorageClass |-> "STANDARD"],
    [Key |-> <<"a", "/", "a">>,           Size |-> 4,   LastModified |-> 1, StorageClass |-> "STANDARD"],
    [Key |-> <<"a", "/", "b", "/", "a">>, Size |-> 8,   LastModified |-> 4, StorageClass |-> "GLACIER"],
    [Key |-> <<"a", "/", "b", "/", "b">>, Size |-> 16,  LastModified |-> 2, StorageClass |-> "STANDARD"],
    [Key |-> <<"a", "/", "c">>,           Size |-> 32,  LastModified |-> 3, StorageClass |-> "STANDARD"],
    [Key |-> <<"b">>,                     Size |-> 64,  LastModified |-> 1, StorageClass |-> "GLACIER"],
    [Key |-> <<"b", "/", "a">>,           Size |-> 128, LastModified |-> 2, StorageClass |-> "STANDARD"],
    [Key |-> <<"c", "/", "a", "/", "b">>, Size |-> 256, LastModified |-> 4, StorageClass |-> "GLACIER"],
    [Key |-> <<"c", "/", "b">>,           Size |-> 512, LastModified |-> 2, StorageClass |-> "STANDARD"] >>

Bucket == SubSeq(AllObjects, 1, Min(MaxObjects, Len(AllObjects)))

\* the listing is in ascending key order
BucketSorted == \A i \in 1..(Len(AllObjects) - 1) :
                    StrLess(AllObjects[i].Key, AllObjects[i + 1].Key)

(***************************************************************************)
(* class Prefix                                                            *)
(***************************************************************************)
\* Prefix(key=...): every such object holds the SAME default dict
BlankPrefix(key) ==
    [ key |-> key, number_objects |-> 0, size |-> 0,
      oldest |-> DefaultOldest, newest |-> DefaultNewest,
      breakdown |-> [ref |-> "default"] ]

\* Prefix(data=obj): a dict of its own
DataPrefix(data) ==
    [ key |-> data.Key, number_objects |-> 1, size |-> data.Size,
      oldest |-> data.LastModified, newest |-> data.LastModified,
      breakdown |-> [ref |-> "own",
                     dict |-> [t \in {data.StorageClass} |-> data.Size]] ]

\* the dict an accumulator's breakdown attribute points to
Breakdown(st, p) ==
    IF p.breakdown.ref = "default" THEN st.default_breakdown ELSE p.breakdown.dict

\* Prefix.depth
key_depth(p) == Len(Split(RStrip(p.key, Separator), Separator))

\* Prefix.compare
compare(self, other, d) ==
    LET l_prefix_parts == PySlice(Split(self.key, Separator), 0, -1)
        r_prefix_parts == PySlice(Split(other.key, Separator), 0, -1)
    IN  IF d = 0 THEN TRUE
        ELSE IF d > 0
        THEN PySlice(l_prefix_parts, 0, Min(Len(l_prefix_parts), d))
               = PySlice(r_prefix_parts, 0, Min(Len(r_prefix_parts), d))
        ELSE l_prefix_parts = r_prefix_parts

\* Prefix.__add__, scalar attributes
AddFields(self, other) ==
    [ self EXCEPT !.number_objects = self.number_objects + other.number_objects,
                  !.size = self.size + other.size,
                  !.oldest = Min(self.oldest, other.oldest),
                  !.newest = Max(self.newest, other.newest) ]

\* Prefix.__add__, the loop over the union of the storage tiers; when both
\* operands point to the same dict, od is sd and every value doubles
MergedDict(sd, od) ==
    [ t \in (DOMAIN sd) \cup (DOMAIN od) |-> DictGet(sd, t) + DictGet(od, t) ]

\* Prefix.__add__: mutates self (and the dict self.breakdown points to), returns self
Add(st, self, other) ==
    LET d == MergedDict(Breakdown(st, self), Breakdown(st, other))
        s == AddFields(self, other)
    IN  IF self.breakdown.ref = "default"
        THEN [ self |-> s, default_breakdown |-> d ]
        ELSE [ self |-> [s EXCEPT !.breakdown = [ref |-> "own", dict |-> d]],
               default_breakdown |-> st.default_breakdown ]

(***************************************************************************)
(* class S3Counter; st is the counter object:                              *)
(*   [counters, default_breakdown, reports_at_depth, out]                  *)
(***************************************************************************)
Top(st) == st.counters[Len(st.counters)]

Event(kind, st, p, key) ==
    [ kind |-> kind, key |-> key, number_objects |-> p.number_objects,
      size |-> p.size, oldest |-> p.oldest, newest |-> p.newest,
      breakdown |-> Breakdown(st, p) ]

\* S3Counter.report: an empty key is printed as "."
report(st, counter, kind) ==
    LET key == IF counter.key = << >> THEN << "." >> ELSE counter.key
    IN  [ st EXCEPT !.out = Append(@, Event(kind, st, counter, key)) ]

\* S3Counter.report_omission
report_omission(st) ==
    [ st EXCEPT !.out = Append(@, Event("omission", st, BlankPrefix(Top(st).key),
                                        Top(st).key)) ]

\* self.counters[-1] = self.counters[-1] + other
FoldTop(st, other) ==
    LET r == Add(st, Top(st), other)
    IN  [ st EXCEPT !.counters[Len(st.counters)] = r.self,
                    !.default_breakdown = r.default_breakdown ]

\* _pop_counter without "Add totals to next counter"
pop_counter_no_merge(st) ==
    LET counter == Top(st)
        popped == [ st EXCEPT !.counters = SubSeq(@, 1, Len(@) - 1) ]
    IN  report(popped, counter, "report")

\* _pop_counter taking the counter with self.counters.pop(0)
pop_counter_front(st) ==
    LET counter == st.counters[1]
        popped == [ st EXCEPT !.counters = Tail(@) ]
        merged == IF popped.counters # << >> THEN FoldTop(popped, counter) ELSE popped
    IN  report(merged, counter, "report")

\* S3Counter._pop_counter
pop_counter(st) ==
    LET counter == Top(st)
        popped == [ st EXCEPT !.counters = SubSeq(@, 1, Len(@) - 1) ]
        merged == IF popped.counters # << >> THEN FoldTop(popped, counter) ELSE popped
    IN  report(merged, counter, "report")

\* while len(self.counters) > n: self._pop_counter()
RECURSIVE pop_down_to(_, _)
pop_down_to(st, n) ==
    IF Len(st.counters) > n THEN pop_down_to(pop_counter(st), n) ELSE st

\* self.counters.append(Prefix(key=prefix_increment))
push_counter(st, key) ==
    [ st EXCEPT !.counters = Append(@, BlankPrefix(key)),
                !.out = Append(@, Event("push", st, BlankPrefix(key), key)) ]

\* S3Counter._set_prefix, one iteration of the for loop and the rest of it
RECURSIVE set_prefix_loop(_, _, _, _)
set_prefix_loop(st, prefix_parts, index, prefix_increment0) ==
    IF index >= Len(prefix_parts) THEN st
    ELSE
      LET prefix_increment == prefix_increment0 \o prefix_parts[index + 1] \o << Separator >>
          counter_index == index + 1
          st1 == IF Len(st.counters) > counter_index
                    /\ ~(st.counters[counter_index + 1].key = prefix_increment)
                 THEN pop_down_to([st EXCEPT !.reports_at_depth = 0], counter_index)
                 ELSE st
          st2 == IF Len(st1.counters) <= counter_index
                 THEN push_counter([st1 EXCEPT !.reports_at_depth = 0], prefix_increment)
                 ELSE st1
      IN  set_prefix_loop(st2, prefix_parts, index + 1, prefix_increment)

\* _set_prefix without the final while loop
set_prefix_no_trailing_pop(st, key) ==
    LET prefix_dir == RSplitHead(<< Separator >> \o LStrip(key, Separator), Separator)
        all_parts == Split(prefix_dir, Separator)
        prefix_parts == PySlice(all_parts, 1, Min(depth + 1, Len(all_parts)))
    IN  set_prefix_loop(st, prefix_parts, 0, << >>)

\* _set_prefix keeping every directory segment, whatever the depth
set_prefix_untruncated(st, key) ==
    LET prefix_dir == RSplitHead(<< Separator >> \o LStrip(key, Separator), Separator)
        all_parts == Split(prefix_dir, Separator)
        prefix_parts == PySlice(all_parts, 1, Len(all_parts))
        st1 == set_prefix_loop(st, prefix_parts, 0, << >>)
    IN  pop_down_to(st1, Len(prefix_parts) + 1)

\* S3Counter._set_prefix
set_prefix(st, key) ==
    LET prefix_dir == RSplitHead(<< Separator >> \o LStrip(key, Separator), Separator)
        all_parts == Split(prefix_dir, Separator)
        prefix_parts == PySlice(all_parts, 1, Min(depth + 1, Len(all_parts)))
        st1 == set_prefix_loop(st, prefix_parts, 0, << >>)
    IN  pop_down_to(st1, Len(prefix_parts) + 1)

\* the drain written as "while len(self.counters) > 1"
finalise_keep_root(st) == pop_down_to(st, 1)

\* S3Counter.finalise
finalise(st) == pop_down_to(st, 0)

\* the fast path looping over data_list[1:]
RECURSIVE fast_count_rest(_, _)
fast_count_rest(st, data_list) ==
    IF data_list = << >> THEN st
    ELSE fast_count_rest(FoldTop(st, Head(data_list)), Tail(data_list))

fast_count_skip_first(st, data_list) ==
    IF data_list = << >> THEN st ELSE fast_count_rest(st, Tail(data_list))

\* count_list, fast path: for data_object in data_list: counters[-1] += data_object
RECURSIVE fast_count(_, _)
fast_count(st, data_list) ==
    IF data_list = << >> THEN st
    ELSE fast_count(FoldTop(st, Head(data_list)), Tail(data_list))

\* count_list, the body of the per-record loop
count_one(st, data_object) ==
    LET st1 == IF ~compare(Top(st), data_object, depth)
               THEN set_prefix(st, data_object.key) ELSE st
        st2 == FoldTop(st1, data_object)
    IN  IF st2.reports_at_depth < limit /\ key_depth(data_object) <= depth
        THEN LET st3 == [ report(st2, data_object, "leaf")
                            EXCEPT !.reports_at_depth = st2.reports_at_depth + 1 ]
             IN  IF st3.reports_at_depth = limit THEN report_omission(st3) ELSE st3
        ELSE st2

\* count_list, small list: for data_object in data_list: ...
RECURSIVE slow_count(_, _)
slow_count(st, data_list) ==
    IF data_list = << >> THEN st
    ELSE slow_count(count_one(st, Head(data_list)), Tail(data_list))

\* S3Counter.count_list
RECURSIVE count_list(_, _)
count_list(st, data_list) ==
    IF data_list = << >> THEN st
    ELSE
      LET last == data_list[Len(data_list)]
          first_try == compare(Top(st), last, depth)
          st1 == IF ~first_try THEN set_prefix(st, data_list[1].key) ELSE st
          is_fast == IF ~first_try THEN compare(Top(st1), last, depth) ELSE TRUE
      IN  IF is_fast THEN fast_count(st1, data_list)
          ELSE IF Len(data_list) > SmallBatch
          THEN LET pivot == Len(data_list) \div 2
               IN  count_list(count_list(st1, SubSeq(data_list, 1, pivot)),
                              SubSeq(data_list, pivot + 1, Len(data_list)))
          ELSE slow_count(st1, data_list)

\* S3Counter.__init__
NewCounter ==
    [ counters |-> << BlankPrefix(<< >>) >>,
      default_breakdown |-> EmptyDict,
      reports_at_depth |-> 0,
      out |-> << >> ]

\* the counter object as it is in the current state
Self ==
    [ counters |-> counters, default_breakdown |-> default_breakdown,
      reports_at_depth |-> reports_at_depth, out |-> out ]

\* [Prefix(data=obj) for obj in page.get('Contents', [])]
RECURSIVE Prefixes(_)
Prefixes(idxs) ==
    IF idxs = << >> THEN << >>
    ELSE << DataPrefix(Bucket[Head(idxs)]) >> \o Prefixes(Tail(idxs))

(***************************************************************************)
(* The counter driven by an arbitrary caller: the source lists objects in  *)
(* key order into a page, the page is passed to count_list, and finalise   *)
(* ends the run.                                                           *)
(***************************************************************************)
Depths == (0..MaxDepth) \cup {Inf}
Limits == 0..MaxLimit

InitCounter(st) ==
    /\ counters = st.counters
    /\ default_breakdown = st.default_breakdown
    /\ reports_at_depth = st.reports_at_depth
    /\ out = st.out

SetCounter(st) ==
    /\ counters' = st.counters
    /\ default_breakdown' = st.default_breakdown
    /\ reports_at_depth' = st.reports_at_depth
    /\ out' = st.out

Init ==
    /\ depth \in Depths
    /\ limit \in Limits
    /\ InitCounter(NewCounter)
    /\ page = << >>
    /\ cursor = 0
    /\ arrived = << >>
    /\ fed = << >>
    /\ ncalls = 0
    /\ biggest = 0
    /\ pc = "run"
    /\ task = -1
    /\ ready = << >>
    /\ fetched = 0
    /\ folded = << >>
    /\ manifest = << >>
    /\ fileno = 0
    /\ lineno = 0

\* the source lists the next object (any later object of the bucket) into the page
ListObject ==
    /\ pc = "run"
    /\ \E i \in (cursor + 1)..Len(Bucket) :
         /\ page' = Append(page, i)
         /\ arrived' = Append(arrived, i)
         /\ cursor' = i
    /\ UNCHANGED << configVars, invVars, counterVars, fetched, historyVars, pc, loopVars >>

\* counter.count_list(page)
CountList ==
    /\ pc = "run"
    /\ page # << >>
    /\ SetCounter(count_list(Self, Prefixes(page)))
    /\ fed' = fed \o page
    /\ ncalls' = ncalls + 1
    /\ biggest' = Max(biggest, Len(page))
    /\ page' = << >>
    /\ UNCHANGED << configVars, invVars, cursor, arrived, fetched, pc, loopVars >>

\* counter.finalise()
Finalise ==
    /\ pc = "run"
    /\ page = << >>
    /\ SetCounter(finalise(Self))
    /\ pc' = "done"
    /\ UNCHANGED << configVars, invVars, sourceVars, historyVars, loopVars >>

Next == ListObject \/ CountList \/ Finalise

Spec == Init /\ [][Next]_vars

(***************************************************************************)
(* s3_disk_usage: the coroutine creates a count_page task for the page it  *)
(* holds, asks the paginator for the next page, and only then awaits the   *)
(* task.  A task created with create_task runs when the coroutine is       *)
(* suspended in an await (or has ended); count_page has no await, so it    *)
(* runs as one step.                                                       *)
(***************************************************************************)
\* pages the paginator can deliver next: objects after the cursor, in order
RECURSIVE PagesFrom(_, _)
PagesFrom(from, n) ==
    IF n = 0 THEN { << >> }
    ELSE { << >> } \cup
         UNION { { << i >> \o rest : rest \in PagesFrom(i, n - 1) }
                    : i \in (from + 1)..Min(MaxPipeObjects, Len(Bucket)) }

PipeInit ==
    /\ depth \in Depths
    /\ limit \in Limits
    /\ InitCounter(NewCounter)
    /\ page = << >>
    /\ cursor = 0
    /\ arrived = << >>
    /\ fed = << >>
    /\ ncalls = 0
    /\ biggest = 0
    /\ pc = "start"
    /\ task = -1
    /\ ready = << >>
    /\ fetched = 0
    /\ folded = << >>
    /\ manifest = << >>
    /\ fileno = 0
    /\ lineno = 0

\* last_page = {"Contents": []}; task = asyncio.create_task(count_page(counter, last_page))
Start ==
    /\ pc = "start"
    /\ task' = 0
    /\ ready' = Append(ready, [no |-> 0, page |-> << >>])
    /\ pc' = "fetch"
    /\ UNCHANGED << configVars, invVars, counterVars, sourceVars, historyVars, folded >>

\* for page in page_iterator: the paginator delivers a page
FetchPage ==
    /\ pc = "fetch"
    /\ \E p \in PagesFrom(cursor, MaxPipePage) \ { << >> } :
         /\ page' = p
         /\ cursor' = p[Len(p)]
         /\ arrived' = arrived \o p
    /\ fetched' = fetched + 1
    /\ pc' = "await"
    /\ UNCHANGED << configVars, invVars, counterVars, historyVars, loopVars >>

\* for page in page_iterator: the listing is exhausted
FetchEnd ==
    /\ pc = "fetch"
    /\ pc' = "await_last"
    /\ UNCHANGED << configVars, invVars, counterVars, sourceVars, historyVars, loopVars >>

\* the paginator raises and the task that was created before the fetch is
\* dropped without running
FetchFailCancel ==
    /\ pc = "fetch"
    /\ pc' = "raised"
    /\ ready' = << >>
    /\ UNCHANGED << configVars, invVars, counterVars, sourceVars, historyVars, task, folded >>

\* for page in page_iterator: the paginator raises; the except clause prints
\* and re-raises, which ends the coroutine.  The task created before the
\* fetch is still in the loop's ready queue, ahead of the callback that
\* stops the loop, so it runs before asyncio.run returns.
FetchFail ==
    /\ pc = "fetch"
    /\ pc' = "raised"
    /\ UNCHANGED << configVars, invVars, counterVars, sourceVars, historyVars, loopVars >>

\* asyncio.run re-raises the exception of the coroutine: the run has failed
Abort ==
    /\ pc = "raised"
    /\ ready = << >>
    /\ pc' = "failed"
    /\ UNCHANGED << configVars, invVars, counterVars, sourceVars, historyVars, loopVars >>

\* the event loop runs count_page(counter, last_page) once the coroutine is
\* suspended in await task, or has ended
RunTask ==
    /\ pc \in { "await", "await_last", "raised" }
    /\ ready # << >>
    /\ LET t == Head(ready)
       IN  /\ SetCounter(count_list(Self, Prefixes(t.page)))
           /\ fed' = fed \o t.page
           /\ ncalls' = IF t.page = << >> THEN ncalls ELSE ncalls + 1
           /\ biggest' = Max(biggest, Len(t.page))
           /\ folded' = Append(folded, t.no)
    /\ ready' = Tail(ready)
    /\ UNCHANGED << configVars, invVars, sourceVars, pc, task >>

\* the loop body without "await task"
ResumeNoAwait ==
    /\ pc = "await"
    /\ task' = fetched
    /\ ready' = Append(ready, [no |-> fetched, page |-> page])
    /\ pc' = "fetch"
    /\ UNCHANGED << configVars, invVars, counterVars, sourceVars, historyVars, folded >>

\* await task returns; last_page = page; task = asyncio.create_task(...)
Resume ==
    /\ pc = "await"
    /\ task \in Range(folded)
    /\ task' = fetched
    /\ ready' = Append(ready, [no |-> fetched, page |-> page])
    /\ pc' = "fetch"
    /\ UNCHANGED << configVars, invVars, counterVars, sourceVars, historyVars, folded >>

\* the final await task returns; counter.finalise()
FinishRun ==
    /\ pc = "await_last"
    /\ task \in Range(folded)
    /\ SetCounter(finalise(Self))
    /\ pc' = "done"
    /\ UNCHANGED << configVars, invVars, sourceVars, historyVars, loopVars >>

PipeNext ==
    Start \/ FetchPage \/ FetchEnd \/ FetchFail \/ Abort \/ RunTask \/ Resume \/ FinishRun

PipeSpec == PipeInit /\ [][PipeNext]_vars

(***************************************************************************)
(* Reference quantities over the records passed in so far                  *)
(***************************************************************************)
RECURSIVE SumSizes(_)
SumSizes(idxs) ==
    IF idxs = << >> THEN 0 ELSE Bucket[Head(idxs)].Size + SumSizes(Tail(idxs))

LastOut == out[Len(out)]

\* the run ended with finalise
Finalised == pc = "done"

\* join of path segments, each followed by the separator
RECURSIVE JoinDir(_)
JoinDir(parts) ==
    IF parts = << >> THEN << >>
    ELSE Head(parts) \o << Separator >> \o JoinDir(Tail(parts))

\* the directory segments of a key
DirParts(key) == PySlice(Split(key, Separator), 0, -1)

\* the first D directory segments of a key, as a path
GroupKey(key) == JoinDir(PySlice(DirParts(key), 0, depth))

IsPrefixOf(s, t) == Len(s) <= Len(t) /\ SubSeq(t, 1, Len(s)) = s

\* keys that do not begin with the separator
Plain(key) == LStrip(key, Separator) = key

ReportsOf(o) == { i \in 1..Len(o) : o[i].kind = "report" }

\* the closed accumulators of a log, by key, count and size
ClosedSet(o) ==
    { [key |-> o[i].key, number_objects |-> o[i].number_objects, size |-> o[i].size]
        : i \in ReportsOf(o) }

\* count_list once per record, then finalise, on a fresh counter
RECURSIVE SingletonFold(_, _)
SingletonFold(st, idxs) ==
    IF idxs = << >> THEN st
    ELSE SingletonFold(count_list(st, << DataPrefix(Bucket[Head(idxs)]) >>), Tail(idxs))

SingletonRun(idxs) == finalise(SingletonFold(NewCounter, idxs))

(***************************************************************************)
(* C1  Total conservation: after finalise the last accumulator reported is *)
(* the root, its number_objects is the number of records passed to         *)
(* count_list and its size is the sum of their sizes, for every depth,     *)
(* limit and page partitioning.                                            *)
(***************************************************************************)
C1_TotalConservation ==
    Finalised =>
        /\ out # << >>
        /\ LastOut.kind = "report"
        /\ LastOut.key = << "." >>
        /\ LastOut.number_objects = Len(fed)
        /\ LastOut.size = SumSizes(fed)

\* a finalised run whose single page of more than SmallBatch records went
\* through the bisecting path down to the per-record path (leaf reports exist)
C1_Witness ==
    /\ Finalised
    /\ ncalls = 1
    /\ biggest > SmallBatch
    /\ \E i \in 1..Len(out) : out[i].kind = "leaf"
    /\ Cardinality(ReportsOf(out)) > 2

(***************************************************************************)
(* C2  Depth truncation: for D >= 1, after finalise, every record (with a  *)
(* directory) was closed into exactly one reported accumulator whose key   *)
(* is the record's first D directory segments, and that accumulator's      *)
(* count is the number of records under that path.                         *)
(***************************************************************************)
C2_DepthTruncation ==
    (Finalised /\ depth >= 1) =>
        \A i \in Range(fed) :
            LET key == Bucket[i].Key
                g == GroupKey(key)
                under == { j \in Range(fed) : IsPrefixOf(g, Bucket[j].Key) }
                hits == { r \in ReportsOf(out) : out[r].key = g }
            IN  (Plain(key) /\ DirParts(key) # << >>) =>
                    /\ Cardinality(hits) = 1
                    /\ \A r \in hits : out[r].number_objects = Cardinality(under)

(***************************************************************************)
(* C3  Batch/record equivalence: count_list(batch) followed by finalise    *)
(* reports the same closed accumulators (key, count, size) as count_list   *)
(* once per record followed by finalise.                                   *)
(***************************************************************************)
C3_BatchRecordEquivalence ==
    (Finalised /\ ncalls = 1) =>
        ClosedSet(out) = ClosedSet(SingletonRun(fed).out)

(***************************************************************************)
(* C4  Partition independence of the root: whatever the page boundaries,   *)
(* the final root accumulator has the count, size, oldest, newest and tier *)
(* breakdown that the one-record-per-page partition of the same stream     *)
(* yields.                                                                 *)
(***************************************************************************)
RootOf(o) ==
    LET e == o[Len(o)]
    IN  [ number_objects |-> e.number_objects, size |-> e.size,
          oldest |-> e.oldest, newest |-> e.newest, breakdown |-> e.breakdown ]

C4_PartitionIndependence ==
    Finalised => RootOf(out) = RootOf(SingletonRun(fed).out)

(***************************************************************************)
(* C5  Tier breakdown: the breakdown of every accumulator handed to report *)
(* by _pop_counter sums to the accumulator's size.                         *)
(***************************************************************************)
C5_TierBreakdown ==
    \A r \in ReportsOf(out) : DictSum(out[r].breakdown) = out[r].size

(***************************************************************************)
(* C6  Leaf display cap: after finalise, under every enclosing directory   *)
(* the number of leaf reports equals min(L, number of records of that      *)
(* directory whose segment count is <= D).                                 *)
(***************************************************************************)
LeavesUnder(dir) ==
    { i \in Range(fed) : DirParts(Bucket[i].Key) = dir
                         /\ key_depth(DataPrefix(Bucket[i])) <= depth }

LeafReportsUnder(dir) ==
    { r \in 1..Len(out) : out[r].kind = "leaf" /\ DirParts(out[r].key) = dir }

Dirs == { DirParts(Bucket[i].Key) : i \in { j \in Range(fed) : Plain(Bucket[j].Key) } }

C6_LeafDisplayCap ==
    Finalised =>
        \A dir \in Dirs :
            Cardinality(LeafReportsUnder(dir)) = Min(limit, Cardinality(LeavesUnder(dir)))

(***************************************************************************)
(* C7  Omission marker: after finalise, for every enclosing directory the  *)
(* omission marker was emitted exactly once if the directory has more than *)
(* L leaf records, and never otherwise.                                    *)
(***************************************************************************)
OmissionsUnder(dir) ==
    { r \in 1..Len(out) : out[r].kind = "omission" /\ out[r].key = JoinDir(dir) }

C7_OmissionMarker ==
    (Finalised /\ limit >= 1) =>
        \A dir \in Dirs :
            Cardinality(OmissionsUnder(dir))
                = IF Cardinality(LeavesUnder(dir)) > limit THEN 1 ELSE 0

(***************************************************************************)
(* C8  Bottom-up close order: every accumulator reported by _pop_counter   *)
(* is the most recently opened accumulator not yet reported, every opened  *)
(* accumulator extends the path of the one below it, the accumulators      *)
(* still open are exactly the counter stack, and finalise reports the root *)
(* last.                                                                   *)
(***************************************************************************)
ReportedKey(key) == IF key = << >> THEN << "." >> ELSE key

\* replay the pushes and reports of a log on a stack of keys; the result is
\* the stack of open keys, or Bad at the first report of an accumulator that
\* is not the deepest open one
Bad == << << "!" >> >>

RECURSIVE OpenAfter(_, _)
OpenAfter(events, stack) ==
    IF events = << >> \/ stack = Bad THEN stack
    ELSE
      LET e == Head(events)
      IN  IF e.kind = "push"
          THEN IF stack # << >> /\ IsPrefixOf(stack[Len(stack)], e.key)
                  /\ Len(e.key) > Len(stack[Len(stack)])
               THEN OpenAfter(Tail(events), Append(stack, e.key))
               ELSE Bad
          ELSE IF e.kind = "report"
          THEN IF stack # << >> /\ ReportedKey(stack[Len(stack)]) = e.key
               THEN OpenAfter(Tail(events), SubSeq(stack, 1, Len(stack) - 1))
               ELSE Bad
          ELSE OpenAfter(Tail(events), stack)

C8_BottomUpCloseOrder ==
    /\ OpenAfter(out, << << >> >>) = [ i \in 1..Len(counters) |-> counters[i].key ]
    /\ Finalised => (counters = << >> /\ LastOut.kind = "report" /\ LastOut.key = << "." >>)

\* a finalised run in which a depth-2 accumulator, its parent and the root
\* were closed, the deepest first
C8_Witness ==
    /\ Finalised
    /\ \E i, j \in ReportsOf(out) :
          /\ i < j
          /\ out[i].key = << "a", "/", "b", "/" >>
          /\ out[j].key = << "a", "/" >>
    /\ \E i \in ReportsOf(out) : out[i].key = << "b", "/" >>

(***************************************************************************)
(* C9  Failure still finalises: when the paginator fails after at least    *)
(* one record was folded, finalise has run when the run ends as failed:    *)
(* the stack is empty and the root was the last accumulator reported.      *)
(***************************************************************************)
C9_FailureStillFinalises ==
    (pc = "failed" /\ fed # << >>) =>
        /\ counters = << >>
        /\ out # << >>
        /\ LastOut.kind = "report"
        /\ LastOut.key = << "." >>

(***************************************************************************)
(* C10  Pipeline ordering: tasks run count_page in the order the pages     *)
(* arrived; a task that has not run yet is the only one, belongs to a page *)
(* already fetched and follows the folds of all earlier pages; the records *)
(* folded are always a prefix of the records that arrived; finalise has    *)
(* run only after every fetched page was folded.                           *)
(***************************************************************************)
C10_PipelineOrdering ==
    /\ folded = [ i \in 1..Len(folded) |-> i - 1 ]
    /\ Len(ready) <= 1
    /\ \A i \in 1..Len(ready) :
          /\ ready[i].no = Len(folded)
          /\ ready[i].no <= fetched
    /\ IsPrefixOf(fed, arrived)
    /\ pc = "done" =>
          /\ counters = << >>
          /\ Len(folded) = fetched + 1
          /\ fed = arrived

\* a finished run that fetched and folded at least three pages
C10_Witness ==
    /\ pc = "done"
    /\ fetched >= 3
    /\ Len(folded) = fetched + 1
    /\ Len(fed) >= 4

(***************************************************************************)
(* The counter fed by a source that does not keep the key order: any       *)
(* object of the bucket may come next.  count_list has no check of the     *)
(* order, so the actions of the counter are the same as in Spec.           *)
(***************************************************************************)
ListAny ==
    /\ pc = "run"
    /\ Len(arrived) < MaxLoose
    /\ \E i \in 1..Len(Bucket) :
         /\ page' = Append(page, i)
         /\ arrived' = Append(arrived, i)
         /\ cursor' = i
    /\ UNCHANGED << configVars, invVars, counterVars, fetched, historyVars, pc, loopVars >>

LooseNext == ListAny \/ CountList \/ Finalise

LooseSpec == Init /\ [][LooseNext]_vars

\* the keys of a list of objects strictly ascend
Ascending(idxs) ==
    \A i \in 1..(Len(idxs) - 1) :
        StrLess(Bucket[idxs[i]].Key, Bucket[idxs[i + 1]].Key)

(***************************************************************************)
(* C11  Sortedness violation is an error: once count_list has been given   *)
(* records whose keys do not strictly ascend, the run has failed (the      *)
(* records are not folded as if nothing had happened).                     *)
(***************************************************************************)
C11_SortednessIsError ==
    ~Ascending(fed) => pc = "failed"

(***************************************************************************)
(* main: --depth is taken as given unless it is <= -3, which selects the   *)
(* unbounded depth; -2 and -1 reach S3Counter unchanged, and neither main  *)
(* nor S3Counter.__init__ rejects them.  The run is that of s3_disk_usage. *)
(***************************************************************************)
MainDepths == { -2, -1 } \cup Depths

ConfigInit ==
    /\ depth \in MainDepths
    /\ limit \in Limits
    /\ InitCounter(NewCounter)
    /\ page = << >>
    /\ cursor = 0
    /\ arrived = << >>
    /\ fed = << >>
    /\ ncalls = 0
    /\ biggest = 0
    /\ pc = "start"
    /\ task = -1
    /\ ready = << >>
    /\ fetched = 0
    /\ folded = << >>
    /\ manifest = << >>
    /\ fileno = 0
    /\ lineno = 0

ConfigSpec == ConfigInit /\ [][PipeNext]_vars

(***************************************************************************)
(* C12  Configuration fails fast: with a negative rollup depth no page is  *)
(* ever requested from the source and no record is ever folded.            *)
(***************************************************************************)
C12_ConfigFailsFast ==
    depth < 0 => (fetched = 0 /\ fed = << >>)

(***************************************************************************)
(* C13  Depth zero: with D = 0 the root is the only accumulator ever on    *)
(* the stack; nothing is pushed and nothing is emitted before finalise,    *)
(* which reports the root alone, with the count and size of all records;   *)
(* no leaf report and no omission marker is emitted.                       *)
(***************************************************************************)
C13_DepthZero ==
    depth = 0 =>
        /\ Len(counters) <= 1
        /\ \A i \in 1..Len(out) : out[i].kind = "report"
        /\ ~Finalised =>
              /\ out = << >>
              /\ Len(counters) = 1
              /\ counters[1].key = << >>
              /\ counters[1].number_objects = Len(fed)
              /\ counters[1].size = SumSizes(fed)
        /\ Finalised =>
              /\ counters = << >>
              /\ Len(out) = 1
              /\ out[1].key = << "." >>
              /\ out[1].number_objects = Len(fed)
              /\ out[1].size = SumSizes(fed)

\* a finalised depth-0 run over several pages with records of three
\* different directories and a positive display limit
C13_Witness ==
    /\ Finalised
    /\ depth = 0
    /\ limit >= 1
    /\ ncalls >= 2
    /\ { 2, 5, 9 } \subseteq Range(fed)

(***************************************************************************)
(* The fast-path decision of count_list on a non-empty page                *)
(***************************************************************************)
\* the counter after the optional self._set_prefix(data_list[0].key)
Realigned(st, data_list) ==
    IF compare(Top(st), data_list[Len(data_list)], depth) THEN st
    ELSE set_prefix(st, data_list[1].key)

\* fast_count is true when the loop over the page is reached
TakesFast(st, data_list) ==
    compare(Top(Realigned(st, data_list)), data_list[Len(data_list)], depth)

(***************************************************************************)
(* C14  Fast-path soundness: whenever a count_list call on a key-sorted    *)
(* page (of keys that do not begin with the separator) takes the fast      *)
(* path, every record of the page compares equal, at depth D, to the       *)
(* top-of-stack accumulator the page is folded into.                       *)
(***************************************************************************)
C14_FastPathSound ==
    [][ ( /\ pc = "run"
          /\ page # << >>
          /\ page' = << >>
          /\ fed' = fed \o page
          /\ \A i \in 1..Len(page) : Plain(Bucket[page[i]].Key)
          /\ TakesFast(Self, Prefixes(page)) )
        => \A i \in 1..Len(page) :
              compare(Top(Realigned(Self, Prefixes(page))),
                      DataPrefix(Bucket[page[i]]), depth) ]_vars

(***************************************************************************)
(* The stack that describes a key: the root, then one accumulator for each *)
(* of the first D directory segments                                       *)
(***************************************************************************)
StackDescribes(stack, dirs) ==
    /\ Len(stack) = 1 + Min(depth, Len(dirs))
    /\ \A i \in 1..(Len(stack) - 1) : stack[i + 1].key = JoinDir(SubSeq(dirs, 1, i))

\* a count_list call on a non-empty page has returned and no page is pending
AfterCountList == pc = "run" /\ page = << >> /\ fed # << >>

LastKey == Bucket[fed[Len(fed)]].Key

Common(stack, dirs) ==
    LET ok == { c \in 0..(Len(stack) - 1) :
                  \A i \in 1..c : /\ i <= Min(depth, Len(dirs))
                                  /\ stack[i + 1].key = JoinDir(SubSeq(dirs, 1, i)) }
    IN  CHOOSE c \in ok : \A d \in ok : d <= c

RECURSIVE SumField(_, _, _, _)
SumField(stack, from, to, f) ==
    IF from > to THEN 0 ELSE stack[from][f] + SumField(stack, from + 1, to, f)

Realigns(st, dirs, st2) ==
    LET n == Len(st.counters)
        c == Common(st.counters, dirs)
        target == Min(depth, Len(dirs))
        npop == n - 1 - c
        npush == target - c
        events == SubSeq(st2.out, Len(st.out) + 1, Len(st2.out))
    IN  /\ StackDescribes(st2.counters, dirs)
        /\ SubSeq(st2.out, 1, Len(st.out)) = st.out
        /\ Len(events) = npop + npush
        \* the entries deeper than the common ancestor, deepest first, each
        \* carrying what was merged into it
        /\ \A j \in 1..npop :
              /\ events[j].kind = "report"
              /\ events[j].key = st.counters[n + 1 - j].key
              /\ events[j].number_objects = SumField(st.counters, n + 1 - j, n, "number_objects")
              /\ events[j].size = SumField(st.counters, n + 1 - j, n, "size")
        \* then blank accumulators for the missing segments
        /\ \A j \in 1..npush :
              /\ events[npop + j].kind = "push"
              /\ events[npop + j].key = JoinDir(SubSeq(dirs, 1, c + j))
              /\ st2.counters[c + 1 + j].number_objects = 0
              /\ st2.counters[c + 1 + j].size = 0
              /\ events[npop + j].breakdown = EmptyDict
        \* the entries above the common ancestor are untouched, the common
        \* ancestor keeps its key and gains the totals of what was popped
        /\ \A i \in 1..c : st2.counters[i] = st.counters[i]
        /\ st2.counters[c + 1].key = st.counters[c + 1].key
        /\ st2.counters[c + 1].number_objects = SumField(st.counters, c + 1, n, "number_objects")
        /\ st2.counters[c + 1].size = SumField(st.counters, c + 1, n, "size")

(***************************************************************************)
(* C16  Realignment postcondition: from every reachable stack and for      *)
(* every key, _set_prefix(key) pops exactly the entries deeper than the    *)
(* longest common ancestor (deepest first, merged and reported), pushes    *)
(* blank accumulators for the missing segments, leaves the chain of the    *)
(* key's first D directory segments and does not touch the common          *)
(* ancestors.  The segments are taken as _set_prefix takes them, from the  *)
(* key without its leading separators.                                     *)
(***************************************************************************)
C16_Realignment ==
    pc = "run" =>
        \A k \in 1..Len(Bucket) :
            Realigns(Self, DirParts(LStrip(Bucket[k].Key, Separator)),
                     set_prefix(Self, Bucket[k].Key))

(***************************************************************************)
(* C17  In-flight fold completes on fetch failure: when the run has ended   *)
(* as failed, no task is left that has not run, every page that was        *)
(* fetched has been folded (the empty first page included) and the records *)
(* folded are all the records that arrived; the same holds when the run    *)
(* ends normally.                                                          *)
(***************************************************************************)
C17_InFlightFoldCompletes ==
    pc \in { "failed", "done" } =>
        /\ ready = << >>
        /\ Len(folded) = fetched + 1
        /\ task \in Range(folded)
        /\ fed = arrived

\* a run that failed at the third fetch, after two pages with records
C17_Witness ==
    /\ pc = "failed"
    /\ fetched = 2
    /\ Len(fed) >= 3
    /\ fed = arrived

(***************************************************************************)
(* C18  Every opened accumulator is reported exactly once: every key, the  *)
(* root included, is opened once; at any time it is either still on the    *)
(* stack or was reported once, never both; nothing is reported that was    *)
(* not opened; a reported accumulator holds at least what the reported     *)
(* accumulators one level below it hold (they were merged into it); after  *)
(* finalise the stack is empty and every opened key has its one report.    *)
(***************************************************************************)
OpenedKeys == { << >> } \cup { out[i].key : i \in { j \in 1..Len(out) : out[j].kind = "push" } }

PushCount(key) ==
    Cardinality({ i \in 1..Len(out) : out[i].kind = "push" /\ out[i].key = key })
    + (IF key = << >> THEN 1 ELSE 0)

ReportCount(key) ==
    Cardinality({ i \in ReportsOf(out) : out[i].key = ReportedKey(key) })

OpenCount(key) ==
    Cardinality({ i \in 1..Len(counters) : counters[i].key = key })

\* the key of the accumulator a popped accumulator is merged into
ParentKey(key) ==
    LET dirs == DirParts(key)
    IN  ReportedKey(JoinDir(SubSeq(dirs, 1, Len(dirs) - 1)))

RECURSIVE SumCounts(_)
SumCounts(rs) ==
    IF rs = {} THEN 0
    ELSE LET r == CHOOSE x \in rs : TRUE
         IN  out[r].number_objects + SumCounts(rs \ {r})

C18_ReportedExactlyOnce ==
    /\ \A k \in OpenedKeys :
          /\ PushCount(k) = 1
          /\ ReportCount(k) + OpenCount(k) = 1
    /\ \A r \in ReportsOf(out) : \E k \in OpenedKeys : out[r].key = ReportedKey(k)
    /\ \A r \in ReportsOf(out) :
          out[r].number_objects >=
             SumCounts({ c \in ReportsOf(out) :
                           /\ out[c].key # << "." >>
                           /\ ParentKey(out[c].key) = out[r].key })
    /\ Finalised =>
          /\ counters = << >>
          /\ \A k \in OpenedKeys : ReportCount(k) = 1

\* a finalised run that opened the root and three directories, two closed by
\* a later key and the last ones by finalise
C18_Witness ==
    /\ Finalised
    /\ depth = 2
    /\ Cardinality(OpenedKeys) >= 4
    /\ Cardinality(ReportsOf(out)) = Cardinality(OpenedKeys)

(***************************************************************************)
(* s3_disk_usage_from_inventory: the data files of the manifest are peeked *)
(* for their first key, sorted by it, then read line by line into pages    *)
(* that are passed to count_list.  A line is a CSV record whose fields are *)
(* strings; pages hold PageSize records.                                   *)
(***************************************************************************)
Digit(c) == CASE c = "0" -> 0 [] c = "1" -> 1 [] c = "2" -> 2 [] c = "3" -> 3
              [] c = "4" -> 4 [] c = "5" -> 5 [] c = "6" -> 6 [] c = "7" -> 7
              [] c = "8" -> 8 [] c = "9" -> 9 [] OTHER -> -1

DigitChar(d) == << "0", "1", "2", "3", "4", "5", "6", "7", "8", "9" >>[d + 1]

\* the decimal text of a number, as the inventory writes it
RECURSIVE Decimal(_)
Decimal(n) ==
    IF n < 10 THEN << DigitChar(n) >>
    ELSE Decimal(n \div 10) \o << DigitChar(n % 10) >>

\* int(size) succeeds
IsInt(s) == s # << >> /\ \A i \in 1..Len(s) : Digit(s[i]) >= 0

\* int(size)
RECURSIVE IntOf(_)
IntOf(s) ==
    IF s = << >> THEN 0
    ELSE 10 * IntOf(SubSeq(s, 1, Len(s) - 1)) + Digit(s[Len(s)])

\* datetime.datetime.strptime(line[idx_time], ...) succeeds: the text has the
\* one fixed form, here a single digit
IsTime(s) == Len(s) = 1 /\ Digit(s[1]) >= 0

\* the body of the try block does not raise
ParseOk(line) ==
    /\ IsTime(line.LastModifiedDate)
    /\ (line.Size = << >> \/ IsInt(line.Size))

\* Prefix(key=..., number_objects=1, size=..., breakdown={...}, oldest=dt, newest=dt)
LinePrefix(line) ==
    LET dt == IntOf(line.LastModifiedDate)
        size == IF line.Size # << >> THEN IntOf(line.Size) ELSE 0
    IN  [ key |-> line.Key, number_objects |-> 1, size |-> size,
          oldest |-> dt, newest |-> dt,
          breakdown |-> [ref |-> "own",
                         dict |-> [t \in {line.StorageClass} |-> size]] ]

\* the line the inventory holds for an object of the bucket; one line of the
\* inventory may have an unreadable size, an unreadable date or no size
LineKinds == { "size", "time", "nosize" }

LineFor(i, special) ==
    LET o == Bucket[i]
        good == [ Key |-> o.Key, Size |-> Decimal(o.Size),
                  LastModifiedDate |-> Decimal(o.LastModified),
                  StorageClass |-> o.StorageClass ]
    IN  IF special = << i, "size" >> THEN [good EXCEPT !.Size = << "x" >>]
        ELSE IF special = << i, "time" >> THEN [good EXCEPT !.LastModifiedDate = << "x" >>]
        ELSE IF special = << i, "nosize" >> THEN [good EXCEPT !.Size = << >>]
        ELSE good

\* the lines of data file f: the objects assigned to it, in key order
RECURSIVE FileLines(_, _, _, _, _)
FileLines(i, n, assign, f, special) ==
    IF i > n THEN << >>
    ELSE (IF assign[i] = f THEN << LineFor(i, special) >> ELSE << >>)
         \o FileLines(i + 1, n, assign, f, special)

ManifestsOf(n, nf) ==
    { [ f \in 1..nf |->
          [ lines |-> FileLines(1, n, assign, f, special),
            first_key |-> << >> ] ]
      : assign \in [1..n -> 1..nf],
        special \in { << 0, "none" >> } \cup ((1..n) \X LineKinds) }

Manifests ==
    UNION { ManifestsOf(n, nf) : n \in 1..Min(MaxInvObjects, Len(Bucket)),
                                 nf \in 1..NumFiles }

\* the object a line describes, and the line of an object
IndexOf(key) == CHOOSE i \in 1..Len(Bucket) : Bucket[i].Key = key

LineOf(i) ==
    CHOOSE l \in UNION { Range(manifest[f].lines) : f \in 1..Len(manifest) } :
        l.Key = Bucket[i].Key

RECURSIVE LinePrefixes(_)
LinePrefixes(idxs) ==
    IF idxs = << >> THEN << >>
    ELSE << LinePrefix(LineOf(Head(idxs))) >> \o LinePrefixes(Tail(idxs))

\* sorted(zip(first_keys, files)): ascending in first_key
RECURSIVE InsertFile(_, _)
InsertFile(file, files) ==
    IF files = << >> THEN << file >>
    ELSE IF StrLess(file.first_key, Head(files).first_key) THEN << file >> \o files
    ELSE << Head(files) >> \o InsertFile(file, Tail(files))

RECURSIVE SortedFiles(_)
SortedFiles(files) ==
    IF files = << >> THEN << >>
    ELSE InsertFile(Head(files), SortedFiles(Tail(files)))

InvInit ==
    /\ depth \in Depths
    /\ limit \in Limits
    /\ InitCounter(NewCounter)
    /\ page = << >>
    /\ cursor = 0
    /\ arrived = << >>
    /\ fed = << >>
    /\ ncalls = 0
    /\ biggest = 0
    /\ pc = "peek"
    /\ task = -1
    /\ ready = << >>
    /\ fetched = 0
    /\ folded = << >>
    /\ manifest \in Manifests
    /\ fileno = 1
    /\ lineno = 0

\* peek_inventory_data_file: the first page of a read with page_size=1
PeekFile ==
    /\ pc = "peek"
    /\ fileno <= Len(manifest)
    /\ manifest[fileno].lines # << >>
    /\ ParseOk(manifest[fileno].lines[1])
    /\ manifest' = [manifest EXCEPT ![fileno].first_key = manifest[fileno].lines[1].Key]
    /\ fileno' = fileno + 1
    /\ UNCHANGED << configVars, counterVars, sourceVars, historyVars, pc, loopVars, lineno >>

\* the first line of the file does not parse (the except clause prints and
\* re-raises), or the file has no line and entry[0] raises
PeekFail ==
    /\ pc = "peek"
    /\ fileno <= Len(manifest)
    /\ \/ manifest[fileno].lines = << >>
       \/ /\ manifest[fileno].lines # << >>
          /\ ~ParseOk(manifest[fileno].lines[1])
    /\ pc' = "failed"
    /\ UNCHANGED << configVars, invVars, counterVars, sourceVars, historyVars, loopVars >>

\* the files are read in the order of the manifest
SortFilesKeepOrder ==
    /\ pc = "peek"
    /\ fileno > Len(manifest)
    /\ fileno' = 1
    /\ lineno' = 0
    /\ pc' = "read"
    /\ UNCHANGED << configVars, counterVars, sourceVars, historyVars, loopVars, manifest >>

\* manifest['files'] = [x for _,x in sorted(zip(first keys, files))]
SortFiles ==
    /\ pc = "peek"
    /\ fileno > Len(manifest)
    /\ manifest' = SortedFiles(manifest)
    /\ fileno' = 1
    /\ lineno' = 0
    /\ pc' = "read"
    /\ UNCHANGED << configVars, counterVars, sourceVars, historyVars, loopVars >>

\* for line in reader: the line parses and is appended to the page
ReadLine ==
    /\ pc = "read"
    /\ fileno <= Len(manifest)
    /\ Len(page) < PageSize
    /\ lineno < Len(manifest[fileno].lines)
    /\ ParseOk(manifest[fileno].lines[lineno + 1])
    /\ LET i == IndexOf(manifest[fileno].lines[lineno + 1].Key)
       IN  /\ page' = Append(page, i)
           /\ arrived' = Append(arrived, i)
    /\ lineno' = lineno + 1
    /\ UNCHANGED << configVars, counterVars, cursor, fetched, historyVars, pc,
                    loopVars, manifest, fileno >>

\* the page built so far is passed to count_list before the exception leaves
ReadFailFlush ==
    /\ pc = "read"
    /\ fileno <= Len(manifest)
    /\ Len(page) < PageSize
    /\ lineno < Len(manifest[fileno].lines)
    /\ ~ParseOk(manifest[fileno].lines[lineno + 1])
    /\ SetCounter(count_list(Self, LinePrefixes(page)))
    /\ fed' = fed \o page
    /\ pc' = "failed"
    /\ UNCHANGED << configVars, invVars, sourceVars, ncalls, biggest, loopVars >>

\* for line in reader: the line does not parse; the except clause prints and
\* re-raises, nothing handles the exception
ReadFail ==
    /\ pc = "read"
    /\ fileno <= Len(manifest)
    /\ Len(page) < PageSize
    /\ lineno < Len(manifest[fileno].lines)
    /\ ~ParseOk(manifest[fileno].lines[lineno + 1])
    /\ pc' = "failed"
    /\ UNCHANGED << configVars, invVars, counterVars, sourceVars, historyVars, loopVars >>

\* if len(page) >= page_size: yield page (counter.count_list(page)); page = []
YieldPage ==
    /\ pc = "read"
    /\ Len(page) >= PageSize
    /\ SetCounter(count_list(Self, LinePrefixes(page)))
    /\ fed' = fed \o page
    /\ ncalls' = ncalls + 1
    /\ biggest' = Max(biggest, Len(page))
    /\ page' = << >>
    /\ UNCHANGED << configVars, invVars, cursor, arrived, fetched, pc, loopVars >>

\* the reader is exhausted: the last "yield page" (the page may be empty),
\* counter.count_list(page), then the next data file
EndFile ==
    /\ pc = "read"
    /\ fileno <= Len(manifest)
    /\ Len(page) < PageSize
    /\ lineno = Len(manifest[fileno].lines)
    /\ SetCounter(count_list(Self, LinePrefixes(page)))
    /\ fed' = fed \o page
    /\ ncalls' = IF page = << >> THEN ncalls ELSE ncalls + 1
    /\ biggest' = Max(biggest, Len(page))
    /\ page' = << >>
    /\ fileno' = fileno + 1
    /\ lineno' = 0
    /\ UNCHANGED << configVars, cursor, arrived, fetched, pc, loopVars, manifest >>

\* counter.finalise() after the last data file
FinaliseInv ==
    /\ pc = "read"
    /\ fileno > Len(manifest)
    /\ SetCounter(finalise(Self))
    /\ pc' = "done"
    /\ UNCHANGED << configVars, invVars, sourceVars, historyVars, loopVars >>

InvNext ==
    PeekFile \/ PeekFail \/ SortFiles \/ ReadLine \/ ReadFail \/ YieldPage
    \/ EndFile \/ FinaliseInv

InvSpec == InvInit /\ [][InvNext]_vars

(***************************************************************************)
(* C19  Malformed record abandons its batch: when the run has failed at a  *)
(* line that does not parse, finalise has not run, the records folded are  *)
(* exactly those of the pages completed before that line (none when the    *)
(* line was met while peeking), the records of the page being built are    *)
(* not folded, and the record of the line itself is nowhere in the         *)
(* counter.                                                                *)
(***************************************************************************)
Peeked == \A f \in 1..Len(manifest) : manifest[f].first_key # << >>

\* the objects of lines from..to of a data file
FileObjects(file, from, to) ==
    [ j \in 1..(to - from + 1) |-> IndexOf(file.lines[from + j - 1].Key) ]

RECURSIVE FilesObjects(_)
FilesObjects(files) ==
    IF files = << >> THEN << >>
    ELSE FileObjects(Head(files), 1, Len(Head(files).lines)) \o FilesObjects(Tail(files))

FailedAtLine ==
    /\ pc = "failed"
    /\ lineno < Len(manifest[fileno].lines)

C19_MalformedAbandonsBatch ==
    FailedAtLine =>
        LET file == manifest[fileno]
            line == file.lines[lineno + 1]
            complete == PageSize * (lineno \div PageSize)
        IN  /\ ~ParseOk(line)
            /\ counters # << >>
            /\ \A r \in ReportsOf(out) : out[r].key # << "." >>
            /\ IndexOf(line.Key) \notin Range(fed) \cup Range(page)
            /\ Range(page) \cap Range(fed) = {}
            /\ IF Peeked
               THEN /\ fed = FilesObjects(SubSeq(manifest, 1, fileno - 1))
                              \o FileObjects(file, 1, complete)
                    /\ page = FileObjects(file, complete + 1, lineno)
               ELSE fed = << >> /\ page = << >>
            /\ counters[1].number_objects = Len(fed) - SumField(counters, 2, Len(counters), "number_objects")

\* a run that failed at the second line of a page, after a complete page
\* of the same file was folded
C19_Witness ==
    /\ FailedAtLine
    /\ Peeked
    /\ Len(fed) >= PageSize
    /\ page # << >>
    /\ lineno >= PageSize + 1

(***************************************************************************)
(* C20  Timestamp extrema are exact: the root reported by finalise, into   *)
(* which every folded record went directly or through merged children,     *)
(* has oldest equal to the minimum and newest equal to the maximum of the  *)
(* timestamps of the folded records, whatever these timestamps are.        *)
(***************************************************************************)
Timestamps(idxs) == { Bucket[i].LastModified : i \in Range(idxs) }

C20_TimestampExtremaExact ==
    (Finalised /\ fed # << >>) =>
        /\ LastOut.number_objects = Len(fed)
        /\ LastOut.oldest \in Timestamps(fed)
        /\ LastOut.newest \in Timestamps(fed)
        /\ \A t \in Timestamps(fed) : LastOut.oldest <= t /\ t <= LastOut.newest

(***************************************************************************)
(* C21  Unbounded depth: with D unbounded no accumulator other than the    *)
(* root is ever opened or reported, so the stack holds the root alone      *)
(* until finalise; every key is displayed as a leaf of its directory, up   *)
(* to L leaves per directory.                                              *)
(***************************************************************************)
C21_UnboundedDepth ==
    depth = Inf =>
        /\ \A i \in 1..Len(out) : out[i].kind # "push"
        /\ Len(counters) <= 1
        /\ \A r \in ReportsOf(out) : out[r].key = << "." >>
        /\ Finalised =>
              \A dir \in Dirs :
                  /\ Cardinality(LeavesUnder(dir))
                        = Cardinality({ i \in Range(fed) : DirParts(Bucket[i].Key) = dir })
                  /\ Cardinality(LeafReportsUnder(dir))
                        = Min(limit, Cardinality(LeavesUnder(dir)))

(***************************************************************************)
(* C22  Bulk-export file ordering: while the files are being peeked        *)
(* nothing is folded and nothing is emitted; once the reading has begun    *)
(* every file carries the key of its first line, the files stand in        *)
(* ascending order of that key, and the records folded are those of the    *)
(* files before the current one, whole and in order, followed by the       *)
(* completed pages of the current file; the step that orders the files     *)
(* keeps the files and only permutes them.                                 *)
(***************************************************************************)
FilesAscending ==
    \A f \in 1..(Len(manifest) - 1) :
        StrLess(manifest[f].first_key, manifest[f + 1].first_key)

Reading ==
    \/ pc \in { "read", "done" }
    \/ pc = "failed" /\ Peeked

FoldedInFileOrder ==
    IF fileno > Len(manifest)
    THEN fed = FilesObjects(manifest) /\ page = << >>
    ELSE /\ fed = FilesObjects(SubSeq(manifest, 1, fileno - 1))
                   \o FileObjects(manifest[fileno], 1, lineno - Len(page))
         /\ page = FileObjects(manifest[fileno], lineno - Len(page) + 1, lineno)

C22_FileOrdering ==
    /\ [](~Reading => (fed = << >> /\ out = << >> /\ ncalls = 0))
    /\ [](Reading =>
            /\ \A f \in 1..Len(manifest) :
                  manifest[f].first_key = manifest[f].lines[1].Key
            /\ FilesAscending
            /\ FoldedInFileOrder)
    /\ [][ manifest' # manifest =>
             \/ /\ pc = "peek" /\ pc' = "peek"
                /\ \A f \in 1..Len(manifest) : manifest'[f].lines = manifest[f].lines
             \/ /\ pc = "peek" /\ pc' = "read" /\ fed = << >>
                /\ Len(manifest') = Len(manifest)
                /\ Range(manifest') = Range(manifest) ]_vars

\* a finished run over two files of at least two lines each whose key
\* ranges overlap: the records were folded file by file
C22_Witness ==
    /\ pc = "done"
    /\ Len(manifest) = 2
    /\ Len(manifest[1].lines) >= 2
    /\ Len(manifest[2].lines) >= 2
    /\ ~Ascending(fed)
    /\ Len(fed) = Len(manifest[1].lines) + Len(manifest[2].lines)

(***************************************************************************)
(* C23  Stack bounds: with D >= 0, after any sequence of count_list calls  *)
(* and before finalise the stack is not empty, its first entry is the root *)
(* (which has not been reported) and it holds at most D + 1 entries.       *)
(***************************************************************************)
C23_StackBounds ==
    (pc = "run" /\ depth >= 0) =>
        /\ Len(counters) >= 1
        /\ Len(counters) <= depth + 1
        /\ counters[1].key = << >>
        /\ counters[1].number_objects + SumField(counters, 2, Len(counters), "number_objects")
              = Len(fed)
        /\ \A r \in ReportsOf(out) : out[r].key # << "." >>

\* a run at depth 1 that folded a key three directories deep and then a key
\* of the root: the stack stayed within two entries and is back at the root
C23_Witness ==
    /\ pc = "run"
    /\ page = << >>
    /\ depth = 1
    /\ 5 \in Range(fed)
    /\ ncalls >= 2
    /\ Len(counters) = 1
    /\ \E r \in ReportsOf(out) : out[r].key = << "a", "/" >>

====
